---- MODULE Spec2Model ----
(***************************************************************************)
(* The in-memory user store of src/src/main.rs and its four actix-web      *)
(* handlers (hello, get_users, get_user, create_user).  Every handler is   *)
(* run by one of NumWorkers worker threads; the shared AppState sits       *)
(* behind one std::sync::Mutex.  A handler is split into the steps between *)
(* which another worker can run: lock, the statements executed while the   *)
(* guard is alive, and the return that drops the guard.                    *)
(***************************************************************************)
EXTENDS Integers, Sequences, FiniteSets, TLC

\* Number of worker threads running handlers concurrently.
NumWorkers == 2

\* Largest value of the identifier type: u32::MAX in the source (User.id and
\* AppState.user_counter are u32), scaled down so that TLC reaches it.
MaxId == 3

\* Cap on the number of records in the store (the Vec itself is unbounded):
\* enough for the counter to reach MaxId, wrap and come back to a seed id.
MaxUsers == MaxId + 2

Workers == 1..NumWorkers

\* Number of values of the identifier type (2^32 in the source).
IdModulus == MaxId + 1

\* Path parameters of GET /users/{id}: values of the identifier type (the
\* smallest, a seed identifier, and the largest).
PathIds == {0, 1, MaxId}

\* Bodies of POST /users (struct CreateUser): any text is accepted.
CreateBodies == {[name |-> "Carol", email |-> "carol@example.com"]}

VARIABLES
    users,           \* AppState.users
    user_counter,    \* AppState.user_counter
    holder,          \* worker whose MutexGuard is alive, 0 when the mutex is free
    poisoned,        \* poison flag of the Mutex
    overflow_checks, \* build flag: TRUE = debug build (u32 + panics on overflow)
    pc,              \* position of each worker in its handler
    req,             \* request each worker is serving
    user_id,         \* create_user's local user_id
    users_local,     \* get_users' local users (the clone)
    resp,            \* response each worker's handler returned
    created,         \* history: records of create_user calls, in the order they dropped the guard
    snap,            \* history: value of created when the worker acquired the guard
    counter0,        \* history: value of user_counter when the worker acquired the guard
    arrived,         \* history: Len(created) when the worker's create_user request was dispatched
    lock_failed      \* history: some handler has returned the lock-failure response

vars == <<users, user_counter, holder, poisoned, overflow_checks, pc, req, user_id,
          users_local, resp, created, snap, counter0, arrived, lock_failed>>

shared == <<users, user_counter>>

----------------------------------------------------------------------------
\* Data

User(id, name, email) == [id |-> id, name |-> name, email |-> email]

SeedUsers ==
    << User(1, "Alice", "alice@example.com"), User(2, "Bob", "bob@example.com") >>

SeedCounter == 2

NoRequest == [kind |-> "none", id |-> 0, name |-> "", email |-> ""]

Requests ==
    {[kind |-> "hello", id |-> 0, name |-> "", email |-> ""],
     [kind |-> "get_users", id |-> 0, name |-> "", email |-> ""]}
    \cup {[kind |-> "get_user", id |-> i, name |-> "", email |-> ""] : i \in PathIds}
    \cup {[kind |-> "create_user", id |-> 0, name |-> b.name, email |-> b.email] :
             b \in CreateBodies}

\* A response: status code, kind of body, and the body (text with the values
\* formatted into it, or the serialized users).
Response(status, content, text, args, us) ==
    [status |-> status, content |-> content, text |-> text, args |-> args, users |-> us]

NoResponse == Response(0, "none", "", <<>>, <<>>)

\* A handler that panics returns nothing: the connection is closed.
Aborted == Response(0, "aborted", "", <<>>, <<>>)

HelloResponse == Response(200, "text", "Hello, actix-web!", <<>>, <<>>)

\* Mutant of LockFailureResponse: the failure is reported as a missing record.
LockFailureAsNotFound ==
    Response(404, "text", "User with ID {} not found", <<0>>, <<>>)

LockFailureResponse ==
    Response(500, "text", "Failed to lock application state", <<>>, <<>>)

OkUsers(us) == Response(200, "json_array", "", <<>>, us)

OkUser(u) == Response(200, "json_object", "", <<>>, <<u>>)

NotFound(id) == Response(404, "text", "User with ID {} not found", <<id>>, <<>>)

CreatedUser(u) == Response(201, "json_object", "", <<>>, <<u>>)

\* users.iter().find(|u| u.id == id): index of the first match from i on, 0 if none.
RECURSIVE FindFrom(_, _, _)
FindFrom(us, id, i) ==
    IF i > Len(us) THEN 0
    ELSE IF us[i].id = id THEN i
    ELSE FindFrom(us, id, i + 1)

\* Mutant of Find: the scan starts at the second record.
FindSkippingFirst(us, id) == FindFrom(us, id, 2)

Find(us, id) == FindFrom(us, id, 1)

\* user_counter + 1 on u32 in a release build (wrapping).
WrappingAddOne(c) == (c + 1) % IdModulus

\* user_counter + 1 overflows u32.
Overflows(c) == c + 1 > MaxId

NewUser(w) == User(user_id[w], req[w].name, req[w].email)

----------------------------------------------------------------------------
Init ==
    /\ users = SeedUsers
    /\ user_counter = SeedCounter
    /\ holder = 0
    /\ poisoned = FALSE
    /\ overflow_checks \in BOOLEAN
    /\ pc = [w \in Workers |-> "idle"]
    /\ req = [w \in Workers |-> NoRequest]
    /\ user_id = [w \in Workers |-> 0]
    /\ users_local = [w \in Workers |-> <<>>]
    /\ resp = [w \in Workers |-> NoResponse]
    /\ created = <<>>
    /\ snap = [w \in Workers |-> <<>>]
    /\ counter0 = [w \in Workers |-> 0]
    /\ arrived = [w \in Workers |-> 0]
    /\ lock_failed = FALSE

\* Number of create_user requests that have not pushed their record yet.
PendingCreates ==
    Cardinality({w \in Workers : /\ req[w].kind = "create_user"
                                 /\ pc[w] \in {"start", "locked", "new_id"}})

\* The dispatcher hands worker w its next request (the previous response, if
\* any, has been sent).
Dispatch(w) ==
    /\ pc[w] \in {"idle", "done"}
    /\ \E r \in Requests :
          /\ r.kind = "create_user" => Len(users) + PendingCreates < MaxUsers
          /\ req' = [req EXCEPT ![w] = r]
    /\ pc' = [pc EXCEPT ![w] = "start"]
    /\ user_id' = [user_id EXCEPT ![w] = 0]
    /\ users_local' = [users_local EXCEPT ![w] = <<>>]
    /\ resp' = [resp EXCEPT ![w] = NoResponse]
    /\ snap' = [snap EXCEPT ![w] = <<>>]
    /\ counter0' = [counter0 EXCEPT ![w] = 0]
    /\ arrived' = [arrived EXCEPT ![w] =
                       IF req'[w].kind = "create_user" THEN Len(created) ELSE 0]
    /\ UNCHANGED <<users, user_counter, holder, poisoned, overflow_checks, created,
                   lock_failed>>

\* hello: the fixed reply.
Hello(w) ==
    /\ pc[w] = "start"
    /\ req[w].kind = "hello"
    /\ pc' = [pc EXCEPT ![w] = "done"]
    /\ resp' = [resp EXCEPT ![w] = HelloResponse]
    /\ UNCHANGED <<users, user_counter, holder, poisoned, overflow_checks, req, user_id,
                   users_local, created, snap, counter0, arrived, lock_failed>>

\* Mutant of LockOk: the lock is granted although another guard is alive.
LockOkNoExclusion(w) ==
    /\ pc[w] = "start"
    /\ ~poisoned
    /\ holder' = w
    /\ pc' = [pc EXCEPT ![w] = "locked"]
    /\ snap' = [snap EXCEPT ![w] = created]
    /\ counter0' = [counter0 EXCEPT ![w] = user_counter]
    /\ UNCHANGED <<users, user_counter, poisoned, overflow_checks, req, user_id,
                   users_local, resp, created, arrived, lock_failed>>

\* data.lock() returns Ok(guard): the mutex is free and not poisoned.
LockOk(w) ==
    /\ pc[w] = "start"
    /\ holder = 0
    /\ ~poisoned
    /\ holder' = w
    /\ pc' = [pc EXCEPT ![w] = "locked"]
    /\ snap' = [snap EXCEPT ![w] = created]
    /\ counter0' = [counter0 EXCEPT ![w] = user_counter]
    /\ UNCHANGED <<users, user_counter, poisoned, overflow_checks, req, user_id,
                   users_local, resp, created, arrived, lock_failed>>

\* data.lock() returns Err(PoisonError): the guard inside the error is dropped
\* at once and the handler returns the lock-failure response.
LockErr(w) ==
    /\ pc[w] = "start"
    /\ holder = 0
    /\ poisoned
    /\ pc' = [pc EXCEPT ![w] = "done"]
    /\ resp' = [resp EXCEPT ![w] = LockFailureResponse]
    /\ lock_failed' = TRUE
    /\ UNCHANGED <<users, user_counter, holder, poisoned, overflow_checks, req, user_id,
                   users_local, created, snap, counter0, arrived>>

\* The handler returns: its MutexGuard goes out of scope and unlocks the mutex.
DropGuard(w) ==
    /\ holder = w
    /\ holder' = 0
    /\ pc' = [pc EXCEPT ![w] = "done"]

----------------------------------------------------------------------------
\* get_users

GetUsersLock(w) ==
    /\ req[w].kind = "get_users"
    /\ LockOk(w) \/ LockErr(w)

\* Mutant of GetUsersClone: the guard is dropped as soon as the clone is taken.
GetUsersCloneThenDrop(w) ==
    /\ req[w].kind = "get_users"
    /\ pc[w] = "locked"
    /\ users_local' = [users_local EXCEPT ![w] = users]
    /\ holder' = 0
    /\ pc' = [pc EXCEPT ![w] = "cloned"]
    /\ UNCHANGED <<users, user_counter, poisoned, overflow_checks, req, user_id,
                   resp, created, snap, counter0, arrived, lock_failed>>

\* Mutant of GetUsersClone: the records are moved out of the store, not cloned.
GetUsersTake(w) ==
    /\ req[w].kind = "get_users"
    /\ pc[w] = "locked"
    /\ users_local' = [users_local EXCEPT ![w] = users]
    /\ users' = <<>>
    /\ pc' = [pc EXCEPT ![w] = "cloned"]
    /\ UNCHANGED <<user_counter, holder, poisoned, overflow_checks, req, user_id,
                   resp, created, snap, counter0, arrived, lock_failed>>

GetUsersClone(w) ==
    /\ req[w].kind = "get_users"
    /\ pc[w] = "locked"
    /\ users_local' = [users_local EXCEPT ![w] = users]
    /\ pc' = [pc EXCEPT ![w] = "cloned"]
    /\ UNCHANGED <<users, user_counter, holder, poisoned, overflow_checks, req, user_id,
                   resp, created, snap, counter0, arrived, lock_failed>>

GetUsersRespond(w) ==
    /\ req[w].kind = "get_users"
    /\ pc[w] = "cloned"
    /\ resp' = [resp EXCEPT ![w] = OkUsers(users_local[w])]
    /\ pc' = [pc EXCEPT ![w] = "responded"]
    /\ UNCHANGED <<users, user_counter, holder, poisoned, overflow_checks, req, user_id,
                   users_local, created, snap, counter0, arrived, lock_failed>>

GetUsersReturn(w) ==
    /\ req[w].kind = "get_users"
    /\ pc[w] = "responded"
    /\ DropGuard(w)
    /\ UNCHANGED <<users, user_counter, poisoned, overflow_checks, req, user_id,
                   users_local, resp, created, snap, counter0, arrived, lock_failed>>

----------------------------------------------------------------------------
\* get_user

GetUserLock(w) ==
    /\ req[w].kind = "get_user"
    /\ LockOk(w) \/ LockErr(w)

GetUserFind(w) ==
    /\ req[w].kind = "get_user"
    /\ pc[w] = "locked"
    /\ LET i == Find(users, req[w].id) IN
          resp' = [resp EXCEPT ![w] =
                      IF i # 0 THEN OkUser(users[i]) ELSE NotFound(req[w].id)]
    /\ pc' = [pc EXCEPT ![w] = "responded"]
    /\ UNCHANGED <<users, user_counter, holder, poisoned, overflow_checks, req, user_id,
                   users_local, created, snap, counter0, arrived, lock_failed>>

GetUserReturn(w) ==
    /\ req[w].kind = "get_user"
    /\ pc[w] = "responded"
    /\ DropGuard(w)
    /\ UNCHANGED <<users, user_counter, poisoned, overflow_checks, req, user_id,
                   users_local, resp, created, snap, counter0, arrived, lock_failed>>

----------------------------------------------------------------------------
\* create_user

CreateUserLock(w) ==
    /\ req[w].kind = "create_user"
    /\ LockOk(w) \/ LockErr(w)

\* let user_id = app_state.user_counter + 1;  In a build with overflow checks
\* the addition panics at u32::MAX: the guard is dropped while unwinding, which
\* poisons the mutex, and the handler returns nothing.  Otherwise it wraps.
CreateUserNewId(w) ==
    /\ req[w].kind = "create_user"
    /\ pc[w] = "locked"
    /\ IF Overflows(user_counter) /\ overflow_checks
       THEN /\ poisoned' = TRUE
            /\ holder' = 0
            /\ pc' = [pc EXCEPT ![w] = "done"]
            /\ resp' = [resp EXCEPT ![w] = Aborted]
            /\ UNCHANGED user_id
       ELSE /\ user_id' = [user_id EXCEPT ![w] = WrappingAddOne(user_counter)]
            /\ pc' = [pc EXCEPT ![w] = "new_id"]
            /\ UNCHANGED <<poisoned, holder, resp>>
    /\ UNCHANGED <<users, user_counter, overflow_checks, req, users_local, created, snap,
                   counter0, arrived, lock_failed>>

\* Mutant of CreateUserPush: the new record overwrites the last one.
CreateUserOverwriteLast(w) ==
    /\ req[w].kind = "create_user"
    /\ pc[w] = "new_id"
    /\ users' = [users EXCEPT ![Len(users)] = NewUser(w)]
    /\ pc' = [pc EXCEPT ![w] = "pushed"]
    /\ UNCHANGED <<user_counter, holder, poisoned, overflow_checks, req, user_id,
                   users_local, resp, created, snap, counter0, arrived, lock_failed>>

\* Mutant of CreateUserPush: the record is inserted at the front.
CreateUserPushFront(w) ==
    /\ req[w].kind = "create_user"
    /\ pc[w] = "new_id"
    /\ users' = <<NewUser(w)>> \o users
    /\ pc' = [pc EXCEPT ![w] = "pushed"]
    /\ UNCHANGED <<user_counter, holder, poisoned, overflow_checks, req, user_id,
                   users_local, resp, created, snap, counter0, arrived, lock_failed>>

CreateUserPush(w) ==
    /\ req[w].kind = "create_user"
    /\ pc[w] = "new_id"
    /\ users' = Append(users, NewUser(w))
    /\ pc' = [pc EXCEPT ![w] = "pushed"]
    /\ UNCHANGED <<user_counter, holder, poisoned, overflow_checks, req, user_id,
                   users_local, resp, created, snap, counter0, arrived, lock_failed>>

CreateUserSetCounter(w) ==
    /\ req[w].kind = "create_user"
    /\ pc[w] = "pushed"
    /\ user_counter' = user_id[w]
    /\ pc' = [pc EXCEPT ![w] = "stored"]
    /\ UNCHANGED <<users, holder, poisoned, overflow_checks, req, user_id,
                   users_local, resp, created, snap, counter0, arrived, lock_failed>>

CreateUserRespond(w) ==
    /\ req[w].kind = "create_user"
    /\ pc[w] = "stored"
    /\ resp' = [resp EXCEPT ![w] = CreatedUser(NewUser(w))]
    /\ pc' = [pc EXCEPT ![w] = "responded"]
    /\ UNCHANGED <<users, user_counter, holder, poisoned, overflow_checks, req, user_id,
                   users_local, created, snap, counter0, arrived, lock_failed>>

CreateUserReturn(w) ==
    /\ req[w].kind = "create_user"
    /\ pc[w] = "responded"
    /\ DropGuard(w)
    /\ created' = Append(created, resp[w].users[1])
    /\ UNCHANGED <<users, user_counter, poisoned, overflow_checks, req, user_id,
                   users_local, resp, snap, counter0, arrived, lock_failed>>

----------------------------------------------------------------------------
Next ==
    \E w \in Workers :
        \/ Dispatch(w)
        \/ Hello(w)
        \/ GetUsersLock(w)
        \/ GetUsersClone(w)
        \/ GetUsersRespond(w)
        \/ GetUsersReturn(w)
        \/ GetUserLock(w)
        \/ GetUserFind(w)
        \/ GetUserReturn(w)
        \/ CreateUserLock(w)
        \/ CreateUserNewId(w)
        \/ CreateUserPush(w)
        \/ CreateUserSetCounter(w)
        \/ CreateUserRespond(w)
        \/ CreateUserReturn(w)

Spec == Init /\ [][Next]_vars

TypeOK ==
    /\ user_counter \in 0..MaxId
    /\ holder \in 0..NumWorkers
    /\ Len(users) <= MaxUsers
    /\ \A w \in Workers : req[w] \in Requests \cup {NoRequest}

----------------------------------------------------------------------------
\* Identifiers present in a sequence of users.
Ids(us) == {us[i].id : i \in 1..Len(us)}

StoreKinds == {"get_users", "get_user", "create_user"}

ReadOnlyKinds == {"hello", "get_users", "get_user"}

\* Worker w's handler took the guard and has built its response.
Answered(w) ==
    \/ pc[w] = "responded"
    \/ pc[w] = "done" /\ resp[w].status \notin {0, 500}

\* C1: no two records in the store share an identifier.
C1_Uniqueness ==
    \A i, j \in 1..Len(users) : i # j => users[i].id # users[j].id

\* Every worker has answered a create_user request with 201, and all of these
\* requests were dispatched before the first of them took the guard.
FirstCreates == {w \in Workers : \A v \in Workers : Len(snap[w]) <= Len(snap[v])}

ConcurrentCreates ==
    /\ \A w \in Workers : /\ req[w].kind = "create_user"
                          /\ pc[w] = "done"
                          /\ resp[w].status = 201
    /\ \A w \in Workers : \A f \in FirstCreates : arrived[w] <= Len(snap[f])

\* C2: the responses of N concurrent create_user requests carry pairwise
\* distinct identifiers that form the run counter0+1 .. counter0+N, counter0
\* being the counter seen by the first of them to take the guard.
C2_ConcurrentCreatesGapFree ==
    ConcurrentCreates =>
        /\ \A w, v \in Workers : w # v => resp[w].users[1].id # resp[v].users[1].id
        /\ \A f \in FirstCreates :
              {resp[w].users[1].id : w \in Workers}
                  = (counter0[f] + 1)..(counter0[f] + NumWorkers)

\* C3: the identifiers assigned by completed create_user calls, in the order
\* they held the guard, are 3, 4, 5, ...
C3_Monotonic ==
    \A i \in 1..Len(created) : created[i].id = SeedCounter + i

\* C4: a get_user that takes the guard after create_user returned record R
\* answers a request for R.id with 200 and R itself.
C4_ReadYourWrite ==
    \A w \in Workers :
        (req[w].kind = "get_user" /\ Answered(w)) =>
            \A i \in 1..Len(snap[w]) :
                snap[w][i].id = req[w].id => resp[w] = OkUser(snap[w][i])

\* C5: once it holds the guard, get_user answers 404 naming the requested id
\* exactly when the id is neither a seed id nor the id of a completed
\* create_user, and otherwise 200 with a record of that id.
C5_NotFoundCorrectness ==
    \A w \in Workers :
        (req[w].kind = "get_user" /\ Answered(w)) =>
            IF req[w].id \in Ids(SeedUsers) \cup Ids(snap[w])
            THEN /\ resp[w].status = 200
                 /\ resp[w].content = "json_object"
                 /\ Len(resp[w].users) = 1
                 /\ resp[w].users[1].id = req[w].id
            ELSE /\ resp[w].status = 404
                 /\ resp[w].text = "User with ID {} not found"
                 /\ resp[w].args = <<req[w].id>>

\* An identifier is reported missing to one worker and, after a create_user,
\* found for another.
C5_Witness ==
    \E w, v \in Workers :
        /\ req[w].kind = "get_user" /\ req[w].id = MaxId /\ pc[w] = "done"
        /\ resp[w].status = 404
        /\ req[v].kind = "get_user" /\ req[v].id = MaxId /\ pc[v] = "done"
        /\ resp[v].status = 200

\* C6: a successful get_users response is the two seed records followed by
\* the records of the create_user calls that dropped the guard before the
\* list took it, in creation order, each exactly once.
C6_ListCompleteness ==
    \A w \in Workers :
        (req[w].kind = "get_users" /\ Answered(w)) =>
            /\ resp[w].status = 200
            /\ resp[w].content = "json_array"
            /\ resp[w].users = SeedUsers \o snap[w]

\* A list that shows two created records after the seeds.
C6_Witness ==
    \E w \in Workers :
        /\ req[w].kind = "get_users" /\ pc[w] = "done"
        /\ resp[w].status = 200
        /\ Len(resp[w].users) >= Len(SeedUsers) + 2

\* C7: a handler whose data.lock() fails returns 500 "Failed to lock
\* application state" (never 404 or 201) and leaves users and the counter
\* as they were.
C7_LockFailure ==
    [][\A w \in Workers :
          (pc[w] = "start" /\ req[w].kind \in StoreKinds /\ poisoned /\ pc'[w] # pc[w]) =>
              /\ resp'[w].status = 500
              /\ resp'[w].content = "text"
              /\ resp'[w].text = "Failed to lock application state"
              /\ users' = users
              /\ user_counter' = user_counter]_vars

\* A get_user and a create_user have both hit the poisoned mutex.
C7_Witness ==
    \E w, v \in Workers :
        /\ req[w].kind = "get_user" /\ pc[w] = "done" /\ resp[w].status = 500
        /\ req[v].kind = "create_user" /\ pc[v] = "done" /\ resp[v].status = 500

\* C8: after a request has failed to take the guard, a later get_users,
\* get_user or create_user that finds the mutex free can take it.
C8_FailuresAreLocal ==
    \A w \in Workers :
        (lock_failed /\ pc[w] = "start" /\ req[w].kind \in StoreKinds /\ holder = 0) =>
            ENABLED LockOk(w)

\* C9: while no guard is alive the counter is the largest identifier in the
\* store and 2 + the number of completed create_user calls; a create_user
\* that is about to drop the guard has assigned counter + 1 and stored it.
C9_CounterInvariant ==
    /\ holder = 0 =>
          /\ \A i \in 1..Len(users) : users[i].id <= user_counter
          /\ user_counter \in Ids(users)
          /\ user_counter = SeedCounter + Len(created)
    /\ \A w \in Workers :
          (req[w].kind = "create_user" /\ pc[w] = "responded") =>
              /\ resp[w].users[1].id = counter0[w] + 1
              /\ user_counter = counter0[w] + 1

\* C10: every step of hello, get_users and get_user leaves users and the
\* counter unchanged; a step that changes them is a step of create_user.
C10_OnlyCreateMutates ==
    [][/\ \A w \in Workers :
             (pc[w] \notin {"idle", "done"} /\ pc'[w] # pc[w]
                                            /\ req[w].kind \in ReadOnlyKinds) =>
                 shared' = shared
       /\ shared' # shared =>
             \E w \in Workers : req[w].kind = "create_user" /\ pc'[w] # pc[w]]_vars

\* A list and a failed lookup have been answered and the store is the seed.
C10_Witness ==
    \E w, v \in Workers :
        /\ req[w].kind = "get_users" /\ pc[w] = "done" /\ resp[w].status = 200
        /\ req[v].kind = "get_user" /\ pc[v] = "done" /\ resp[v].status = 404
        /\ users = SeedUsers
        /\ user_counter = SeedCounter

\* C11: two create_user requests with the same name and email, run one after
\* the other or concurrently, each return 201 and leave two records in the
\* store that differ in id and carry the name and email of the body.
C11_NotIdempotent ==
    \A w, v \in Workers :
        ( /\ w # v
          /\ req[w].kind = "create_user" /\ req[v].kind = "create_user"
          /\ req[w].name = req[v].name /\ req[w].email = req[v].email
          /\ pc[w] = "done" /\ pc[v] = "done"
          /\ resp[w].status # 500 /\ resp[v].status # 500 ) =>
            /\ resp[w].status = 201
            /\ resp[v].status = 201
            /\ resp[w].users[1].id # resp[v].users[1].id
            /\ resp[w].users[1].name = req[w].name
            /\ resp[w].users[1].email = req[w].email
            /\ resp[v].users[1].name = req[v].name
            /\ resp[v].users[1].email = req[v].email
            /\ \E i, j \in 1..Len(users) :
                  i # j /\ users[i] = resp[w].users[1] /\ users[j] = resp[v].users[1]

GuardInScope(w) ==
    pc[w] \in {"locked", "cloned", "new_id", "pushed", "stored", "responded"}

\* C13: at most one handler has a guard in scope and it is the holder of the
\* mutex, so every access to users and the counter (all made while the guard
\* is in scope) is exclusive; while get_users or get_user has its guard no
\* create_user stands between its push and its counter update, and the
\* counter is the id of the last record.
C13_MutualExclusion ==
    /\ \A w, v \in Workers : w # v => ~(GuardInScope(w) /\ GuardInScope(v))
    /\ \A w \in Workers : GuardInScope(w) => holder = w
    /\ \A w \in Workers :
          (req[w].kind \in {"get_users", "get_user"} /\ GuardInScope(w)) =>
              /\ \A v \in Workers : ~(req[v].kind = "create_user" /\ pc[v] = "pushed")
              /\ user_counter = users[Len(users)].id

\* A create_user has pushed its record and not yet stored the counter while
\* a reader waits for the mutex.
C13_Witness ==
    \E w, v \in Workers :
        /\ req[w].kind = "create_user" /\ pc[w] = "pushed"
        /\ user_counter # users[Len(users)].id
        /\ req[v].kind \in {"get_users", "get_user"} /\ pc[v] = "start"

\* A step of worker w's handler (every action but the dispatcher's).
HandlerStep(w) ==
    \/ Hello(w)
    \/ GetUsersLock(w) \/ GetUsersClone(w) \/ GetUsersRespond(w) \/ GetUsersReturn(w)
    \/ GetUserLock(w) \/ GetUserFind(w) \/ GetUserReturn(w)
    \/ CreateUserLock(w) \/ CreateUserNewId(w) \/ CreateUserPush(w)
    \/ CreateUserSetCounter(w) \/ CreateUserRespond(w) \/ CreateUserReturn(w)

\* Fair scheduling of the handlers: a worker whose handler can step again and
\* again (a waiter on the mutex included) eventually steps.  Requests need
\* not keep arriving.
FairSpec == Spec /\ \A w \in Workers : SF_vars(HandlerStep(w))

\* Under fair scheduling every handler that has started ends, and a guard
\* that is held is given up again.
Termination ==
    /\ \A w \in Workers : (pc[w] \notin {"idle", "done"}) ~> (pc[w] = "done")
    /\ (holder # 0) ~> (holder = 0)

\* C14: no request blocks indefinitely: every get_users, get_user and
\* create_user request that has started and ended has returned a response,
\* and has released the guard on the way out.
C14_EveryRequestAnswered ==
    \A w \in Workers :
        (req[w].kind \in StoreKinds /\ pc[w] = "done") =>
            /\ resp[w].status \in {200, 201, 404, 500}
            /\ holder # w

IsPrefix(a, b) == Len(a) <= Len(b) /\ SubSeq(b, 1, Len(a)) = a

\* Of two answered get_users requests, the one that took the guard when fewer
\* create_user calls had completed shows a prefix of what the other shows.
ListsArePrefixes ==
    \A w, v \in Workers :
        ( /\ req[w].kind = "get_users" /\ Answered(w)
          /\ req[v].kind = "get_users" /\ Answered(v)
          /\ Len(snap[w]) <= Len(snap[v]) ) =>
            IsPrefix(resp[w].users, resp[v].users)

\* C15: every step leaves the old users sequence as a prefix of the new one
\* (no record is removed, moved or changed), and the result of a get_users
\* is a prefix of the result of any get_users that takes the guard later.
C15_AppendOnly ==
    [][IsPrefix(users, users') /\ ListsArePrefixes']_vars

\* Two lists have been answered, the later one longer than the earlier one.
C15_Witness ==
    \E w, v \in Workers :
        /\ req[w].kind = "get_users" /\ pc[w] = "done" /\ resp[w].status = 200
        /\ req[v].kind = "get_users" /\ pc[v] = "done" /\ resp[v].status = 200
        /\ Len(resp[w].users) < Len(resp[v].users)

\* C16: user_counter + 1 in create_user never wraps and never aborts the
\* handler: the id a create_user computes is the counter it read plus one,
\* also at the largest value of the type, no create_user ends without a
\* response, and the mutex is never poisoned.
C16_NoOverflow ==
    /\ ~poisoned
    /\ \A w \in Workers : resp[w] # Aborted
    /\ \A w \in Workers :
          ( /\ req[w].kind = "create_user"
            /\ pc[w] \in {"new_id", "pushed", "stored", "responded"} ) =>
              user_id[w] = counter0[w] + 1

====
